---- MODULE Spec2Model ----
(***************************************************************************)
(* ZenTrack stress-detection engine (src/backend/stress_detector.py).      *)
(*                                                                         *)
(* Spec        the construction of StressDetector objects against one      *)
(*             artifact directory: _load_model, _initialize_model,         *)
(*             _train_with_sample_data and _save_model, one step per       *)
(*             access to the directory, so that constructions interleave.  *)
(* SpecInfer   concurrent callers of the methods of one constructed        *)
(*             engine (the module-level stress_detector of app.py).        *)
(* SpecExtract extract_hrv_features applied to every bounded series.       *)
(***************************************************************************)
EXTENDS Integers, Sequences, FiniteSets, TLC

VARIABLES store, eng, thr, ext, req, db, rate_limiter, cache

vars == <<store, eng, thr, ext, req, db, rate_limiter, cache>>

(***************************************************************************)
(* Bounds                                                                  *)
(***************************************************************************)
\* number of StressDetector objects constructed in one behaviour
MaxEngines == 2

Engines == 1..MaxEngines

\* number of concurrent callers of the engine's methods
NumThreads == 2

Threads == 1..NumThreads

\* longest interval series given to extract_hrv_features
MaxLen == 11

\* the interval values (milliseconds) the series are made of
RRValues == {800, 810}

(***************************************************************************)
(* Model kinds and artifact paths                                          *)
(***************************************************************************)
\* the two kinds _initialize_model accepts
SupportedKinds == {"random_forest", "svm"}

\* "knn" stands for every model_type string _initialize_model rejects
Kinds == SupportedKinds \cup {"knn"}

\* f'stress_model_{self.model_type}.pkl'
ModelPath(kind) == "stress_model_" \o kind \o ".pkl"

\* 'stress_scaler.pkl': the same file for every model_type
ScalerPath(kind) == "stress_scaler.pkl"

Paths == {ModelPath(k) : k \in Kinds} \cup {ScalerPath(k) : k \in Kinds}

(***************************************************************************)
(* Python objects held in self.model / self.scaler.  run is the training   *)
(* run that fitted the object: the engine that ran fit, 0 for a fit made   *)
(* by an earlier process, -1 for an object that was never fitted.          *)
(***************************************************************************)
NoRun == -1

PriorRun == 0

None == [cls |-> "NoneType", fitted |-> FALSE, run |-> NoRun]

\* StandardScaler()
StandardScaler == [cls |-> "StandardScaler", fitted |-> FALSE, run |-> NoRun]

\* RandomForestClassifier(...), SVC(...)
RandomForestClassifier == [cls |-> "RandomForestClassifier", fitted |-> FALSE, run |-> NoRun]

SVC == [cls |-> "SVC", fitted |-> FALSE, run |-> NoRun]

\* obj.fit(X_train...) by training run r
Fit(obj, r) == [obj EXCEPT !.fitted = TRUE, !.run = r]

(***************************************************************************)
(* Files of the artifact directory and joblib                              *)
(***************************************************************************)
Absent == [state |-> "absent", obj |-> None]

\* a file that exists but does not unpickle (truncated or damaged)
Corrupt == [state |-> "corrupt", obj |-> None]

\* joblib.dump(obj, path): the file holds the pickle of obj
JoblibDump(obj) == [state |-> "pkl", obj |-> obj]

\* os.path.exists(path)
Exists(file) == file.state # "absent"

\* joblib.load(path) raises unless the file is a complete pickle
LoadRaises(file) == file.state # "pkl"

\* a load that gives back the estimator without its fitted parameters
JoblibLoadUnfitted(file) == [file.obj EXCEPT !.fitted = FALSE]

\* joblib.load(path): the unpickled object
JoblibLoad(file) == file.obj

\* what an earlier process may have left in the directory: nothing, a damaged
\* file, or a fitted artifact (for the rejected kind: nothing or a pickle)
PriorFiles(path) ==
    (IF path = ModelPath("knn") THEN {Absent} ELSE {Absent, Corrupt}) \cup
    (IF path = ScalerPath("random_forest")
        THEN {JoblibDump(Fit(StandardScaler, PriorRun))}
     ELSE IF path = ModelPath("random_forest")
        THEN {JoblibDump(Fit(RandomForestClassifier, PriorRun))}
     ELSE IF path = ModelPath("svm")
        THEN {JoblibDump(Fit(SVC, PriorRun))}
     ELSE {JoblibDump([cls |-> "Estimator", fitted |-> TRUE, run |-> PriorRun])})

(***************************************************************************)
(* Engine objects                                                          *)
(***************************************************************************)
\* an engine slot no constructor call has used yet
NoEngine ==
    [pc |-> "none", model_type |-> "", model |-> None, scaler |-> None,
     is_trained |-> FALSE, exc |-> "none", trainings |-> 0, save |-> "none",
     foreign |-> {}, after |-> {}]

Finished(en) == en.pc \in {"ready", "raised"}

\* the engines whose model_type differs from kind and that fitted the pickle in file
ForeignOwner(file, kind) ==
    /\ file.state = "pkl"
    /\ file.obj.run \in Engines
    /\ eng[file.obj.run].model_type # kind

\* engine record after an access to path: foreign collects the paths it read
\* or wrote while they held a pickle fitted by an engine of another kind
Touch(en, path) ==
    [en EXCEPT !.foreign = @ \cup (IF ForeignOwner(store[path], en.model_type)
                                      THEN {path} ELSE {})]

\* __init__, lines 30-33
InitFields(kind, done) ==
    [NoEngine EXCEPT !.pc = "load_exists_model", !.model_type = kind,
                     !.scaler = StandardScaler, !.model = None,
                     !.is_trained = FALSE, !.after = done]

\* line 39 without its test: training runs even after a successful load
AfterLoadAlwaysTrains(en) == [en EXCEPT !.pc = "initialize"]

\* line 39-40 left out: a failed load is not followed by training
AfterLoadNeverTrains(en) == [en EXCEPT !.pc = "ready"]

\* __init__, line 39-40, after _load_model returned
AfterLoad(en) ==
    [en EXCEPT !.pc = IF en.is_trained THEN "ready" ELSE "initialize"]

(***************************************************************************)
(* Actions: StressDetector(model_type=kind)                                *)
(***************************************************************************)
Construct(e, kind) ==
    /\ eng[e].pc = "none"
    /\ \A d \in Engines : d < e => eng[d].pc # "none"
    /\ eng' = [eng EXCEPT ![e] =
                  InitFields(kind, {d \in Engines : Finished(eng[d])})]
    /\ UNCHANGED <<store, thr, ext, req, db, rate_limiter, cache>>

\* _load_model, line 277: os.path.exists(model_path) and ...
LoadExistsModel(e) ==
    /\ eng[e].pc = "load_exists_model"
    /\ LET p == ModelPath(eng[e].model_type)
           en == Touch(eng[e], p)
       IN eng' = [eng EXCEPT ![e] =
                     IF Exists(store[p])
                        THEN [en EXCEPT !.pc = "load_exists_scaler"]
                        ELSE AfterLoad(en)]
    /\ UNCHANGED <<store, thr, ext, req, db, rate_limiter, cache>>

\* _load_model, line 277: ... and os.path.exists(scaler_path)
LoadExistsScaler(e) ==
    /\ eng[e].pc = "load_exists_scaler"
    /\ LET p == ScalerPath(eng[e].model_type)
           en == Touch(eng[e], p)
       IN eng' = [eng EXCEPT ![e] =
                     IF Exists(store[p])
                        THEN [en EXCEPT !.pc = "load_model"]
                        ELSE AfterLoad(en)]
    /\ UNCHANGED <<store, thr, ext, req, db, rate_limiter, cache>>

\* _load_model with line 280 moved before the load of the scaler
LoadModelMarksTrained(e) ==
    /\ eng[e].pc = "load_model"
    /\ LET p == ModelPath(eng[e].model_type)
           en == Touch(eng[e], p)
       IN eng' = [eng EXCEPT ![e] =
                     IF LoadRaises(store[p])
                        THEN AfterLoad(en)
                        ELSE [en EXCEPT !.model = JoblibLoad(store[p]),
                                        !.is_trained = TRUE, !.pc = "load_scaler"]]
    /\ UNCHANGED <<store, thr, ext, req, db, rate_limiter, cache>>

\* _load_model, line 278 (and the except clause, line 282)
LoadModel(e) ==
    /\ eng[e].pc = "load_model"
    /\ LET p == ModelPath(eng[e].model_type)
           en == Touch(eng[e], p)
       IN eng' = [eng EXCEPT ![e] =
                     IF LoadRaises(store[p])
                        THEN AfterLoad(en)
                        ELSE [en EXCEPT !.model = JoblibLoad(store[p]),
                                        !.pc = "load_scaler"]]
    /\ UNCHANGED <<store, thr, ext, req, db, rate_limiter, cache>>

\* _load_model without its try/except: a scaler file that does not unpickle
\* ends the constructor
LoadScalerRaises(e) ==
    /\ eng[e].pc = "load_scaler"
    /\ LET p == ScalerPath(eng[e].model_type)
           en == Touch(eng[e], p)
       IN eng' = [eng EXCEPT ![e] =
                     IF LoadRaises(store[p])
                        THEN [en EXCEPT !.exc = "UnpicklingError", !.pc = "raised"]
                        ELSE AfterLoad([en EXCEPT !.scaler = JoblibLoad(store[p]),
                                                  !.is_trained = TRUE])]
    /\ UNCHANGED <<store, thr, ext, req, db, rate_limiter, cache>>

\* _load_model, lines 279-280 (and the except clause, line 282)
LoadScaler(e) ==
    /\ eng[e].pc = "load_scaler"
    /\ LET p == ScalerPath(eng[e].model_type)
           en == Touch(eng[e], p)
       IN eng' = [eng EXCEPT ![e] =
                     IF LoadRaises(store[p])
                        THEN AfterLoad(en)
                        ELSE AfterLoad([en EXCEPT !.scaler = JoblibLoad(store[p]),
                                                  !.is_trained = TRUE])]
    /\ UNCHANGED <<store, thr, ext, req, db, rate_limiter, cache>>

\* _initialize_model, lines 44-59
NewClassifier(en) ==
    IF en.model_type = "random_forest"
       THEN [en EXCEPT !.model = RandomForestClassifier, !.pc = "train"]
    ELSE IF en.model_type = "svm"
       THEN [en EXCEPT !.model = SVC, !.pc = "train"]
    ELSE [en EXCEPT !.exc = "ValueError", !.pc = "raised"]

InitializeModel(e) ==
    /\ eng[e].pc = "initialize"
    /\ eng' = [eng EXCEPT ![e] = NewClassifier(eng[e])]
    /\ UNCHANGED <<store, thr, ext, req, db, rate_limiter, cache>>

\* _train_with_sample_data, lines 103-107, when both fits succeed
TrainOk(en, e) ==
    [en EXCEPT !.scaler = Fit(en.scaler, e), !.model = Fit(en.model, e),
               !.is_trained = TRUE, !.trainings = @ + 1, !.pc = "save_model"]

\* line 103 raises: nothing was fitted
TrainScalerFails(en) ==
    [en EXCEPT !.trainings = @ + 1, !.exc = "FitError", !.pc = "raised"]

\* is_trained set before the fit of line 106 instead of after it
TrainModelFailsMarked(en, e) ==
    [en EXCEPT !.scaler = Fit(en.scaler, e), !.trainings = @ + 1,
               !.is_trained = TRUE, !.exc = "FitError", !.pc = "raised"]

\* line 106 raises: the scaler is fitted, the model is not
TrainModelFails(en, e) ==
    [en EXCEPT !.scaler = Fit(en.scaler, e), !.trainings = @ + 1,
               !.exc = "FitError", !.pc = "raised"]

Train(e) ==
    /\ eng[e].pc = "train"
    /\ \/ eng' = [eng EXCEPT ![e] = TrainOk(eng[e], e)]
       \/ eng' = [eng EXCEPT ![e] = TrainScalerFails(eng[e])]
       \/ eng' = [eng EXCEPT ![e] = TrainModelFails(eng[e], e)]
    /\ UNCHANGED <<store, thr, ext, req, db, rate_limiter, cache>>

\* _save_model without its try/except: the write error leaves the constructor
SaveFailedRaises(en) == [en EXCEPT !.save = "failed", !.exc = "OSError", !.pc = "raised"]

\* the except clause of _save_model, lines 267-268: the warning is printed
\* and _train_with_sample_data returns normally
SaveFailed(en) == [en EXCEPT !.save = "failed", !.pc = "ready"]

\* another engine has the same file open for writing
WriteRace(e, p, wpc) ==
    \E d \in Engines \ {e} :
        /\ eng[d].pc = wpc
        /\ (IF wpc = "write_model" THEN ModelPath(eng[d].model_type)
                                   ELSE ScalerPath(eng[d].model_type)) = p

\* _save_model, line 265: joblib.dump opens the model file for writing
SaveModelOpen(e) ==
    /\ eng[e].pc = "save_model"
    /\ LET p == ModelPath(eng[e].model_type)
           en == Touch(eng[e], p)
       IN \/ /\ eng' = [eng EXCEPT ![e] = [en EXCEPT !.pc = "write_model"]]
             /\ store' = [store EXCEPT ![p] = Corrupt]
          \/ /\ eng' = [eng EXCEPT ![e] = SaveFailed(en)]
             /\ UNCHANGED store
    /\ UNCHANGED <<thr, ext, req, db, rate_limiter, cache>>

\* _save_model, line 265: the pickle of self.model is written
SaveModelWrite(e) ==
    /\ eng[e].pc = "write_model"
    /\ LET p == ModelPath(eng[e].model_type)
       IN \/ /\ eng' = [eng EXCEPT ![e].pc = "save_scaler"]
             /\ store' = [store EXCEPT ![p] = JoblibDump(eng[e].model)]
          \/ /\ WriteRace(e, p, "write_model")
             /\ eng' = [eng EXCEPT ![e].pc = "save_scaler"]
             /\ store' = [store EXCEPT ![p] = Corrupt]
          \/ /\ eng' = [eng EXCEPT ![e] = SaveFailed(eng[e])]
             /\ store' = [store EXCEPT ![p] = Corrupt]
    /\ UNCHANGED <<thr, ext, req, db, rate_limiter, cache>>

\* _save_model, line 266: joblib.dump opens the scaler file for writing
SaveScalerOpen(e) ==
    /\ eng[e].pc = "save_scaler"
    /\ LET p == ScalerPath(eng[e].model_type)
           en == Touch(eng[e], p)
       IN \/ /\ eng' = [eng EXCEPT ![e] = [en EXCEPT !.pc = "write_scaler"]]
             /\ store' = [store EXCEPT ![p] = Corrupt]
          \/ /\ eng' = [eng EXCEPT ![e] = SaveFailed(en)]
             /\ UNCHANGED store
    /\ UNCHANGED <<thr, ext, req, db, rate_limiter, cache>>

\* _save_model, line 266: the pickle of self.scaler is written
SaveScalerWrite(e) ==
    /\ eng[e].pc = "write_scaler"
    /\ LET p == ScalerPath(eng[e].model_type)
           ok == [eng[e] EXCEPT !.save = "ok", !.pc = "ready"]
       IN \/ /\ eng' = [eng EXCEPT ![e] = ok]
             /\ store' = [store EXCEPT ![p] = JoblibDump(eng[e].scaler)]
          \/ /\ WriteRace(e, p, "write_scaler")
             /\ eng' = [eng EXCEPT ![e] = ok]
             /\ store' = [store EXCEPT ![p] = Corrupt]
          \/ /\ eng' = [eng EXCEPT ![e] = SaveFailed(eng[e])]
             /\ store' = [store EXCEPT ![p] = Corrupt]
    /\ UNCHANGED <<thr, ext, req, db, rate_limiter, cache>>

(***************************************************************************)
(* Python values of the inference calls.  Numbers with decimals are held   *)
(* in hundredths (75.0 is 7500); None is a record with isNone set.         *)
(***************************************************************************)
\* rr_intervals=None
NoSeries == [isNone |-> TRUE, list |-> <<>>]

\* rr_intervals=[...]
Series(list) == [isNone |-> FALSE, list |-> list]

\* anxiety_score=None
NoScore == [isNone |-> TRUE, val |-> 0]

\* anxiety_score=v
Score(v) == [isNone |-> FALSE, val |-> v]

\* hrv_features=None
NoFeatures == [isNone |-> TRUE, mean_hr |-> 0, sdnn |-> 0, rmssd |-> 0, lf_hf_ratio |-> 0]

\* hrv_features={'mean_hr': .., 'sdnn': .., 'rmssd': .., 'lf_hf_ratio': ..}
Features(hr, sd, rm, lf) ==
    [isNone |-> FALSE, mean_hr |-> hr, sdnn |-> sd, rmssd |-> rm, lf_hf_ratio |-> lf]

\* the scaled vector and the classifier it was given to: predict and
\* predict_proba are deterministic functions of the fitted estimator (fixed
\* table, random_state=42) and of this vector, kept as the application itself
NoOutput == [clf |-> "", scaling |-> "", x |-> <<>>]

\* what a call gave back: the exception it raised, or (exc = "none") its value
\* in the field of its kind
\* no recommendation payload
NoTherapy == [primary |-> "", message |-> "", therapies |-> <<>>]

\* the 'probabilities' dict of a result, in hundredths of a percent
NoProbabilities == [low |-> 0, moderate |-> 0, high |-> 0]

NoReturn ==
    [exc |-> "none", stress_level |-> "", confidence |-> 0,
     probabilities |-> NoProbabilities, hrv_features |-> NoFeatures,
     anxiety_score |-> NoScore, output |-> NoOutput, number |-> 0,
     therapy |-> NoTherapy]

Raised(e) == [NoReturn EXCEPT !.exc = e]

(***************************************************************************)
(* extract_hrv_features, lines 114-147                                     *)
(***************************************************************************)
RECURSIVE SumSeq(_)
SumSeq(s) == IF s = <<>> THEN 0 ELSE Head(s) + SumSeq(Tail(s))

\* np.sum(rr_array ** 2)
RECURSIVE SumSquares(_)
SumSquares(s) == IF s = <<>> THEN 0 ELSE Head(s) * Head(s) + SumSquares(Tail(s))

\* np.sum(np.diff(rr_array) ** 2)
RECURSIVE SumSquaredDiffs(_)
SumSquaredDiffs(s) ==
    IF Len(s) < 2 THEN 0
    ELSE (s[2] - s[1]) * (s[2] - s[1]) + SumSquaredDiffs(Tail(s))

MaxOf(s) == CHOOSE x \in {s[i] : i \in DOMAIN s} : \A i \in DOMAIN s : s[i] <= x

MinOf(s) == CHOOSE x \in {s[i] : i \in DOMAIN s} : \A i \in DOMAIN s : s[i] >= x

\* round(num / den) cut towards zero instead of rounded
RoundDivTruncated(num, den) == num \div den

\* round(num / den) to the nearest integer, ties to the even one (den > 0)
RoundDiv(num, den) ==
    LET q == num \div den
        r == num % den
    IN IF 2 * r > den \/ (2 * r = den /\ q % 2 = 1) THEN q + 1 ELSE q

\* the largest r in lo..hi with (2r - 1)^2 * den <= 4 * num, by bisection
RECURSIVE SqrtSearch(_, _, _, _)
SqrtSearch(num, den, lo, hi) ==
    IF lo = hi THEN lo
    ELSE LET mid == (lo + hi + 1) \div 2
         IN IF (2 * mid - 1) * (2 * mid - 1) * den <= 4 * num
               THEN SqrtSearch(num, den, mid, hi)
               ELSE SqrtSearch(num, den, lo, mid - 1)

\* round(100 * sqrt(num / den)): the square root to two decimals, in
\* hundredths; hi is an upper bound of the result
RoundSqrt100(num, den, hi) == SqrtSearch(10000 * num, den, 0, hi)

\* floor(100 * sqrt(num / den)), by bisection
RECURSIVE FloorSearch(_, _, _, _)
FloorSearch(num, den, lo, hi) ==
    IF lo = hi THEN lo
    ELSE LET mid == (lo + hi + 1) \div 2
         IN IF mid * mid * den <= num
               THEN FloorSearch(num, den, mid, hi)
               ELSE FloorSearch(num, den, lo, mid - 1)

FloorSqrt100(num, den, hi) == FloorSearch(10000 * num, den, 0, hi)

\* line 124 with <= in place of <
InsufficientDataOffByOne(rr) ==
    rr.isNone \/ Len(rr.list) = 0 \/ Len(rr.list) <= 10

\* line 124: not rr_intervals or len(rr_intervals) < 10
MinSamples == 10

InsufficientData(rr) == rr.isNone \/ Len(rr.list) = 0 \/ Len(rr.list) < MinSamples

\* lines 127-147 for a series that passed line 124; lf_hf_ratio is taken from
\* sdnn and rmssd cut to two decimals (the code divides the unrounded floats)
HrvOf(list) ==
    LET n == Len(list)
        total == SumSeq(list)
        \* n^2 * variance
        spread == n * SumSquares(list) - total * total
        sqdiff == SumSquaredDiffs(list)
        \* sdnn <= range / 2 and rmssd <= range bound the bisections
        range == MaxOf(list) - MinOf(list)
        sdnn_f == FloorSqrt100(spread, n * n, 50 * range + 1)
        rmssd_f == FloorSqrt100(sqdiff, n - 1, 100 * range + 1)
    IN Features(RoundDiv(60000 * 100 * n, total),
                RoundSqrt100(spread, n * n, 50 * range + 1),
                RoundSqrt100(sqdiff, n - 1, 100 * range + 1),
                RoundDiv(100 * sdnn_f, rmssd_f + 100))

extract_hrv_features(rr) ==
    IF InsufficientData(rr)
       THEN Raised("ValueError: Insufficient RR interval data")
       ELSE [NoReturn EXCEPT !.hrv_features = HrvOf(rr.list)]

(***************************************************************************)
(* calculate_anxiety_score, line 159                                       *)
(***************************************************************************)
\* line 159 summing answers[1:]
AnxietyScoreOfTail(answers) == IF answers = <<>> THEN 0 ELSE SumSeq(Tail(answers))

calculate_anxiety_score(answers) == SumSeq(answers)

(***************************************************************************)
(* recommend_therapy, lines 231-259                                        *)
(***************************************************************************)
\* the keys of the recommendations dict, lines 242, 247, 252
StressLevels == <<"Low", "Moderate", "High">>

\* the recommendations dict, lines 241-257
recommendations(level) ==
    IF level = "Low"
       THEN [primary |-> "music",
             message |-> "Your stress level is low. Enjoy some calming music to maintain your peace.",
             therapies |-> <<"Music Therapy", "Light Meditation">>]
    ELSE IF level = "Moderate"
       THEN [primary |-> "yoga",
             message |-> "Your stress level is moderate. Try yoga or breathing exercises to relax.",
             therapies |-> <<"Yoga Therapy", "Breathing Exercises", "Music Therapy">>]
    ELSE [primary |-> "chatbot",
          message |-> "Your stress level is high. Let's talk with our AI assistant for support.",
          therapies |-> <<"AI Chatbot Support", "Guided Meditation", "Breathing Exercises">>]

\* line 259 with recommendations[stress_level] in place of .get: a key that
\* is not in the dict gives no payload
RecommendWithoutDefault(stress_level) ==
    IF \E i \in 1..Len(StressLevels) : StressLevels[i] = stress_level
       THEN recommendations(stress_level)
       ELSE NoTherapy

\* line 259: recommendations.get(stress_level, recommendations['Moderate'])
recommend_therapy(stress_level) ==
    IF \E i \in 1..Len(StressLevels) : StressLevels[i] = stress_level
       THEN recommendations(stress_level)
       ELSE recommendations("Moderate")

(***************************************************************************)
(* predict_stress_level, lines 161-229                                     *)
(***************************************************************************)
\* predict_stress_level without the test of line 173
NotTrainedUnchecked(en) == FALSE

\* line 173: if not self.is_trained
NotTrained(en) == ~en.is_trained

\* bucket boundaries of lines 183 and 185
ModerateFrom == 18

HighFrom == 25

\* line 195
DefaultAnxietyScore == 10

\* lines 183-188 with <= in place of <
DefaultFeaturesInclusive(score) ==
    IF score <= ModerateFrom THEN Features(6800, 8500, 8000, 120)
    ELSE IF score <= HighFrom THEN Features(7800, 5500, 5000, 280)
    ELSE Features(9200, 3000, 2500, 520)

\* lines 183-188
DefaultFeatures(score) ==
    IF score < ModerateFrom THEN Features(6800, 8500, 8000, 120)
    ELSE IF score < HighFrom THEN Features(7800, 5500, 5000, 280)
    ELSE Features(9200, 3000, 2500, 520)

\* line 177 taking a series only when it is longer than MinSamples
SeriesGivenAboveTen(rr) == ~rr.isNone /\ Len(rr.list) > MinSamples

\* line 177, "if rr_intervals": the series is neither None nor empty
SeriesGiven(rr) == ~rr.isNone /\ Len(rr.list) > 0

\* line 181 as "if anxiety_score": a score of 0 counts as no score
ScoreTruthy(score) == ~score.isNone /\ score.val # 0

\* line 181, "anxiety_score is not None"
ScoreGiven(score) == ~score.isNone

\* lines 176-204: the 5-component vector handed to the scaler (with the
\* hrv_features and anxiety_score the result reports), or the exception
PrepareFeatures(hrv, score, rr) ==
    LET ex == IF SeriesGiven(rr) /\ hrv.isNone
                 THEN extract_hrv_features(rr)
                 ELSE [NoReturn EXCEPT !.hrv_features = hrv]
        h1 == ex.hrv_features
        h2 == IF ScoreGiven(score) /\ h1.isNone THEN DefaultFeatures(score.val) ELSE h1
        sc == IF score.isNone THEN DefaultAnxietyScore ELSE score.val
    IN IF ex.exc # "none" THEN ex
       ELSE IF h2.isNone
          THEN Raised("ValueError: Either hrv_features, rr_intervals, or anxiety_score must be provided")
       ELSE [NoReturn EXCEPT !.hrv_features = h2, !.anxiety_score = Score(sc),
                             !.output = [NoOutput EXCEPT !.x =
                                 <<h2.mean_hr, h2.sdnn, h2.rmssd, h2.lf_hf_ratio, 100 * sc>>]]

\* line 207: self.scaler.transform(features)
ScalerTransform(scaler, r) ==
    IF scaler.cls # "StandardScaler" THEN Raised("AttributeError")
    ELSE IF ~scaler.fitted THEN Raised("NotFittedError")
    ELSE [r EXCEPT !.output.scaling = scaler.cls]

\* lines 210-225: self.model.predict / predict_proba on the scaled vector
ModelPredict(model, r) ==
    IF model.cls = "NoneType" THEN Raised("AttributeError")
    ELSE IF ~model.fitted THEN Raised("NotFittedError")
    ELSE [r EXCEPT !.output.clf = model.cls]

\* the whole call, run alone on an engine in state en
predict_stress_level(en, hrv, score, rr) ==
    IF NotTrained(en) THEN Raised("Exception: Model not trained")
    ELSE LET f == PrepareFeatures(hrv, score, rr)
         IN IF f.exc # "none" THEN f
            ELSE LET xs == ScalerTransform(en.scaler, f)
                 IN IF xs.exc # "none" THEN xs
                    ELSE ModelPredict(en.model, xs)

(***************************************************************************)
(* The fitted estimator, lines 210-211.  predict and predict_proba are     *)
(* library code: a row of predict_proba holds three class probabilities    *)
(* that sum to 1; RandomForestClassifier.predict is the argmax of that     *)
(* row, SVC.predict votes on the decision function while its predict_proba *)
(* (probability=True, line 52) comes from a separately fitted calibration. *)
(***************************************************************************)
\* probabilities are multiples of 1/ProbSteps
ProbSteps == 6

NumClasses == 3

\* rows of predict_proba, as numerators over ProbSteps
ProbaRows ==
    {p \in [1..NumClasses -> 0..ProbSteps] : p[1] + p[2] + p[3] = ProbSteps}

\* numpy.argmax: the first index of the largest entry (classes 0, 1, 2)
Argmax(p) ==
    (CHOOSE i \in 1..NumClasses :
        \A j \in 1..NumClasses : p[j] <= p[i] /\ (j < i => p[j] < p[i])) - 1

\* no estimator was applied
NoEstimate == [prediction |-> -1, proba |-> [i \in 1..NumClasses |-> 0]]

\* what (model.predict(x)[0], model.predict_proba(x)[0]) may be for one
\* vector
EstimatorOutputs(cls) ==
    IF cls = "RandomForestClassifier"
       THEN {[prediction |-> Argmax(p), proba |-> p] : p \in ProbaRows}
       ELSE {[prediction |-> c, proba |-> p] : c \in 0..(NumClasses - 1), p \in ProbaRows}

\* line 214
stress_levels == <<"Low", "Moderate", "High">>

\* lines 220-224 truncating to whole percents
RoundPercentTruncated(k) == 100 * ((k * 100) \div ProbSteps)

\* round(p * 100, 2) of lines 220-224, in hundredths of a percent
RoundPercent(k) == RoundDiv(k * 10000, ProbSteps)

\* lines 213-229 with the confidence taken as max(probabilities) instead of
\* probabilities[prediction]
ClassificationResultMaxConfidence(r, est) ==
    [r EXCEPT !.stress_level = stress_levels[est.prediction + 1],
              !.confidence = RoundPercent(MaxOf(est.proba)),
              !.probabilities = [low |-> RoundPercent(est.proba[1]),
                                 moderate |-> RoundPercent(est.proba[2]),
                                 high |-> RoundPercent(est.proba[3])]]

\* lines 213-229: the result dict built from the estimator's answer
ClassificationResult(r, est) ==
    [r EXCEPT !.stress_level = stress_levels[est.prediction + 1],
              !.confidence = RoundPercent(est.proba[est.prediction + 1]),
              !.probabilities = [low |-> RoundPercent(est.proba[1]),
                                 moderate |-> RoundPercent(est.proba[2]),
                                 high |-> RoundPercent(est.proba[3])]]

(***************************************************************************)
(* assess_stress, app.py lines 405-504: the request is served with the     *)
(* engine of line 75; decimals are kept as in the engine's result          *)
(***************************************************************************)
\* the assessment columns of the User row before the request
NewUser ==
    [has_completed_assessment |-> FALSE, last_anxiety_score |-> NoScore,
     total_assessments |-> 0]

\* no StressSession row
NoSession ==
    [isNone |-> TRUE, stress_level |-> "", confidence |-> 0, model_version |-> "",
     anxiety_score |-> NoScore]

\* the response of the handler and the rows the request left committed
NoResponse ==
    [status |-> 0, error |-> "", prediction |-> NoReturn, session |-> NoSession,
     hrv_data |-> NoSeries, features |-> NoFeatures, user |-> NewUser,
     therapy |-> NoTherapy]

\* line 424: answers is data.get('answers', []), rr is
\* data.get('rr_intervals')
NothingPosted(answers, rr) == Len(answers) = 0 /\ ~SeriesGiven(rr)

\* line 429
PostedScore(answers) ==
    IF Len(answers) > 0 THEN Score(calculate_anxiety_score(answers)) ELSE NoScore

\* lines 437-500: the rows added and committed, the user's columns and the
\* response built from the prediction
assess_commit(en, user, rr, prediction) ==
    [NoResponse EXCEPT
        !.status = 200,
        !.prediction = prediction,
        !.session = [isNone |-> FALSE,
                     stress_level |-> prediction.stress_level,
                     confidence |-> prediction.confidence,
                     model_version |-> en.model_type,
                     anxiety_score |-> prediction.anxiety_score],
        !.hrv_data = IF SeriesGiven(rr) THEN rr ELSE NoSeries,
        !.features = prediction.hrv_features,
        !.user = [has_completed_assessment |-> TRUE,
                  last_anxiety_score |-> prediction.anxiety_score,
                  total_assessments |-> user.total_assessments + 1],
        !.therapy = recommend_therapy(prediction.stress_level)]

\* one classification request: made on the engine ("engine") or posted to
\* the endpoint ("endpoint"); est is what the estimator answers for its
\* vector, pc the line the request has reached
NoRequest ==
    [via |-> "", answers |-> <<>>, hrv |-> NoFeatures, score |-> NoScore,
     rr |-> NoSeries, est |-> NoEstimate, pc |-> "", ret |-> NoReturn,
     resp |-> NoResponse]

\* one table row per list element; logs counts the SecurityLog rows
NoRows ==
    [exists |-> FALSE, user |-> NewUser, sessions |-> <<>>, hrv_data |-> <<>>,
     features |-> <<>>, logs |-> 0]

\* db (models.py, line 10): the committed rows, the rows as db.session sees
\* them inside its transaction, and the committed rows as they were when the
\* request arrived
NoDb == [committed |-> NoRows, session |-> NoRows, before |-> NoRows]

\* the rate keys of two clients (rate_limit, lines 169-173)
RateKeys == {"user:1", "ip:10.0.0.1"}

\* a key that is not in self.requests
NoTimes == [present |-> FALSE, times |-> <<>>]

\* rate_limiter (utils.py, line 152) before its first call, with the clock
\* (now), the arguments its callers pass, and the last call and its result.
\* admitted[k] lists the times at which is_allowed(k) returned True;
\* uncleaned is a second RateLimiter that is given the same is_allowed and
\* get_remaining calls but never a cleanup
NoLimiter ==
    [now |-> 0, max_requests |-> 0, window_seconds |-> 0,
     requests |-> [k \in RateKeys |-> NoTimes],
     uncleaned |-> [k \in RateKeys |-> NoTimes],
     admitted |-> [k \in RateKeys |-> <<>>],
     op |-> "", key |-> "", allowed |-> FALSE, remaining |-> 0, removed |-> 0,
     uncleaned_allowed |-> FALSE, uncleaned_remaining |-> 0, calls |-> 0]

\* two cache keys of the cached decorator (line 68)
CacheKeys == {"stats:(1,):{}", "stats:(2,):{}"}

\* a key that is not in self.cache
NoEntry == [present |-> FALSE, value |-> "None", expiry |-> 0]

\* no set of the key yet, or a delete or clear since its latest set
NoLatest == [live |-> FALSE, value |-> "None", set_time |-> 0, ttl |-> 0]

\* cache (utils.py, line 54) before its first call, with the clock (now) and
\* the last call and its result; latest[k] is the latest set of key k and
\* whether no delete or clear followed it
NoCache ==
    [now |-> 0, cache |-> [k \in CacheKeys |-> NoEntry],
     latest |-> [k \in CacheKeys |-> NoLatest],
     op |-> "", key |-> "", ret |-> "None", removed |-> 0, calls |-> 0]

(***************************************************************************)
(* Callers.  Every call is made on engine 1; a predict call takes one step *)
(* per access to the engine's fields, so that calls interleave.            *)
(***************************************************************************)
TheEngine == 1

\* the extraction of SpecExtract: no call made yet
NoCall == [called |-> FALSE, rr |-> NoSeries, answers |-> <<>>, ret |-> NoReturn]

\* a thread that is in no call; used holds the engine fields ("scaler",
\* "model") the current call has read
IdleThread ==
    [pc |-> "idle", op |-> "", hrv |-> NoFeatures, score |-> NoScore,
     rr |-> NoSeries, level |-> "", used |-> {}, ret |-> NoReturn]

\* the series used by the callers: nine samples, ten samples, and none
ShortSeries == [i \in 1..(MinSamples - 1) |-> 800]

FullSeries == [i \in 1..MinSamples |-> IF i % 2 = 0 THEN 810 ELSE 800]

\* the argument combinations (hrv_features, anxiety_score, rr_intervals) of
\* the callers
PredictArgs ==
    {<<NoFeatures, NoScore, NoSeries>>,
     <<NoFeatures, Score(0), NoSeries>>,
     <<NoFeatures, Score(HighFrom), NoSeries>>,
     <<NoFeatures, NoScore, Series(FullSeries)>>,
     <<NoFeatures, Score(ModerateFrom), Series(ShortSeries)>>,
     <<Features(7500, 4000, 3500, 200), NoScore, NoSeries>>}

\* stress_detector.predict_stress_level(...) is entered
PredictCall(t) ==
    /\ thr[t].pc = "idle"
    /\ \E a \in PredictArgs :
          thr' = [thr EXCEPT ![t] =
                     [IdleThread EXCEPT !.pc = "check", !.op = "predict",
                                        !.hrv = a[1], !.score = a[2], !.rr = a[3]]]
    /\ UNCHANGED <<store, eng, ext, req, db, rate_limiter, cache>>

\* lines 173-174
PredictCheck(t) ==
    /\ thr[t].pc = "check"
    /\ thr' = [thr EXCEPT ![t] =
                  IF NotTrained(eng[TheEngine])
                     THEN [@ EXCEPT !.pc = "done",
                                    !.ret = Raised("Exception: Model not trained")]
                     ELSE [@ EXCEPT !.pc = "features"]]
    /\ UNCHANGED <<store, eng, ext, req, db, rate_limiter, cache>>

\* lines 176-204
PredictFeatures(t) ==
    /\ thr[t].pc = "features"
    /\ LET f == PrepareFeatures(thr[t].hrv, thr[t].score, thr[t].rr)
       IN thr' = [thr EXCEPT ![t] =
                     [@ EXCEPT !.ret = f,
                               !.pc = IF f.exc # "none" THEN "done" ELSE "scale"]]
    /\ UNCHANGED <<store, eng, ext, req, db, rate_limiter, cache>>

\* line 207 with fit_transform in place of transform: the engine's scaler is
\* refitted on the request's vector
PredictScaleRefits(t) ==
    /\ thr[t].pc = "scale"
    /\ LET xs == ScalerTransform(eng[TheEngine].scaler, thr[t].ret)
       IN thr' = [thr EXCEPT ![t] =
                     [@ EXCEPT !.ret = xs, !.used = @ \cup {"scaler"},
                               !.pc = IF xs.exc # "none" THEN "done" ELSE "classify"]]
    /\ eng' = [eng EXCEPT ![TheEngine].scaler = Fit(StandardScaler, NoRun)]
    /\ UNCHANGED <<store, ext, req, db, rate_limiter, cache>>

\* line 207: transform reads the fitted mean and scale and leaves the scaler
\* as it is
PredictScale(t) ==
    /\ thr[t].pc = "scale"
    /\ LET xs == ScalerTransform(eng[TheEngine].scaler, thr[t].ret)
       IN thr' = [thr EXCEPT ![t] =
                     [@ EXCEPT !.ret = xs, !.used = @ \cup {"scaler"},
                               !.pc = IF xs.exc # "none" THEN "done" ELSE "classify"]]
    /\ UNCHANGED <<store, eng, ext, req, db, rate_limiter, cache>>

\* lines 210-229: predict and predict_proba read the fitted estimator
PredictClassify(t) ==
    /\ thr[t].pc = "classify"
    /\ thr' = [thr EXCEPT ![t] =
                  [@ EXCEPT !.ret = ModelPredict(eng[TheEngine].model, thr[t].ret),
                            !.used = @ \cup {"model"}, !.pc = "done"]]
    /\ UNCHANGED <<store, eng, ext, req, db, rate_limiter, cache>>

\* stress_detector.extract_hrv_features(rr)
ExtractCall(t) ==
    /\ thr[t].pc = "idle"
    /\ \E rr \in {NoSeries, Series(ShortSeries), Series(FullSeries)} :
          thr' = [thr EXCEPT ![t] =
                     [IdleThread EXCEPT !.pc = "done", !.op = "extract", !.rr = rr,
                                        !.ret = extract_hrv_features(rr)]]
    /\ UNCHANGED <<store, eng, ext, req, db, rate_limiter, cache>>

\* stress_detector.calculate_anxiety_score(answers)
AnxietyCall(t) ==
    /\ thr[t].pc = "idle"
    /\ \E answers \in {<<0, 0, 1, 0>>, <<3, 3, 3, 3, 3, 3, 3, 3, 3>>} :
          thr' = [thr EXCEPT ![t] =
                     [IdleThread EXCEPT !.pc = "done", !.op = "anxiety",
                          !.ret = [NoReturn EXCEPT !.number =
                                      calculate_anxiety_score(answers)]]]
    /\ UNCHANGED <<store, eng, ext, req, db, rate_limiter, cache>>

\* the stress_level arguments of the callers: the three levels, and strings
\* that are no key of the dict
RecommendArgs == {"Low", "Moderate", "High", "low", "Severe", ""}

\* stress_detector.recommend_therapy(stress_level)
RecommendCall(t) ==
    /\ thr[t].pc = "idle"
    /\ \E level \in RecommendArgs :
          thr' = [thr EXCEPT ![t] =
                     [IdleThread EXCEPT !.pc = "done", !.op = "recommend", !.level = level,
                          !.ret = [NoReturn EXCEPT !.therapy = recommend_therapy(level)]]]
    /\ UNCHANGED <<store, eng, ext, req, db, rate_limiter, cache>>

\* the caller has taken the value or the exception of its call
Return(t) ==
    /\ thr[t].pc = "done"
    /\ thr' = [thr EXCEPT ![t] = IdleThread]
    /\ UNCHANGED <<store, eng, ext, req, db, rate_limiter, cache>>

\* the states construction leaves engine 1 in: trained by this process with
\* both artifacts saved, loaded from an earlier process's artifacts, or left
\* by a constructor that raised while fitting the model
TrainedEngine(kind) ==
    [NoEngine EXCEPT !.pc = "ready", !.model_type = kind, !.is_trained = TRUE,
        !.scaler = Fit(StandardScaler, TheEngine), !.trainings = 1, !.save = "ok",
        !.model = Fit(IF kind = "svm" THEN SVC ELSE RandomForestClassifier, TheEngine)]

LoadedEngine(kind) ==
    [NoEngine EXCEPT !.pc = "ready", !.model_type = kind, !.is_trained = TRUE,
        !.scaler = Fit(StandardScaler, PriorRun),
        !.model = Fit(IF kind = "svm" THEN SVC ELSE RandomForestClassifier, PriorRun)]

FailedEngine(kind) ==
    [NoEngine EXCEPT !.pc = "raised", !.model_type = kind, !.exc = "FitError",
        !.scaler = Fit(StandardScaler, TheEngine), !.trainings = 1,
        !.model = IF kind = "svm" THEN SVC ELSE RandomForestClassifier]

StoreOf(en) ==
    [p \in Paths |->
        IF en.pc # "ready" THEN Absent
        ELSE IF p = ModelPath(en.model_type) THEN JoblibDump(en.model)
        ELSE IF p = ScalerPath(en.model_type) THEN JoblibDump(en.scaler)
        ELSE Absent]

InferInit ==
    /\ \E kind \in SupportedKinds :
          \E en \in {TrainedEngine(kind), LoadedEngine(kind), FailedEngine(kind)} :
             /\ eng = [e \in Engines |-> IF e = TheEngine THEN en ELSE NoEngine]
             /\ store = StoreOf(en)
    /\ thr = [t \in Threads |-> IdleThread]
    /\ db = NoDb
    /\ rate_limiter = NoLimiter
    /\ cache = NoCache
    /\ ext = NoCall
    /\ req = NoRequest

InferNext ==
    \E t \in Threads :
        \/ PredictCall(t)
        \/ PredictCheck(t)
        \/ PredictFeatures(t)
        \/ PredictScale(t)
        \/ PredictClassify(t)
        \/ ExtractCall(t)
        \/ AnxietyCall(t)
        \/ RecommendCall(t)
        \/ Return(t)

SpecInfer == InferInit /\ [][InferNext]_vars

(***************************************************************************)
(* extract_hrv_features on every series of at most MaxLen samples          *)
(***************************************************************************)
RECURSIVE SeqsUpTo(_)
SeqsUpTo(n) ==
    IF n = 0 THEN {<<>>}
    ELSE LET shorter == SeqsUpTo(n - 1)
         IN shorter \cup {Append(q, v) : q \in {x \in shorter : Len(x) = n - 1},
                                         v \in RRValues}

SeriesInputs == {NoSeries} \cup {Series(q) : q \in SeqsUpTo(MaxLen)}

ExtractInit ==
    /\ ext \in {[NoCall EXCEPT !.rr = rr] : rr \in SeriesInputs}
    /\ \E kind \in SupportedKinds :
          \E en \in {TrainedEngine(kind), FailedEngine(kind)} :
             /\ eng = [e \in Engines |-> IF e = TheEngine THEN en ELSE NoEngine]
             /\ store = StoreOf(en)
    /\ thr = [t \in Threads |-> IdleThread]
    /\ db = NoDb
    /\ rate_limiter = NoLimiter
    /\ cache = NoCache
    /\ req = NoRequest

\* extract_hrv_features taking the samples off the caller's list
ExtractConsumesSeries ==
    /\ ~ext.called
    /\ ext' = [ext EXCEPT !.called = TRUE, !.ret = extract_hrv_features(ext.rr),
                          !.rr = IF ext.rr.isNone THEN ext.rr ELSE Series(<<>>)]
    /\ UNCHANGED <<store, eng, thr, req, db, rate_limiter, cache>>

\* stress_detector.extract_hrv_features(rr_intervals) on the engine
Extract ==
    /\ ~ext.called
    /\ ext' = [ext EXCEPT !.called = TRUE, !.ret = extract_hrv_features(ext.rr)]
    /\ UNCHANGED <<store, eng, thr, req, db, rate_limiter, cache>>

ExtractNext == Extract

SpecExtract == ExtractInit /\ [][ExtractNext]_vars

(***************************************************************************)
(* calculate_anxiety_score on every list of at most MaxAnswers answers     *)
(***************************************************************************)
MaxAnswers == 4

\* the ordinal answers 0..3, and two integers outside that range
AnswerValues == -1..4

RECURSIVE ListsUpTo(_, _)
ListsUpTo(n, values) ==
    IF n = 0 THEN {<<>>}
    ELSE LET shorter == ListsUpTo(n - 1, values)
         IN shorter \cup {Append(q, v) : q \in {x \in shorter : Len(x) = n - 1},
                                         v \in values}

ScoreInit ==
    /\ ext \in {[NoCall EXCEPT !.answers = q] : q \in ListsUpTo(MaxAnswers, AnswerValues)}
    /\ eng = [e \in Engines |->
                 IF e = TheEngine THEN TrainedEngine("random_forest") ELSE NoEngine]
    /\ store = StoreOf(TrainedEngine("random_forest"))
    /\ thr = [t \in Threads |-> IdleThread]
    /\ db = NoDb
    /\ rate_limiter = NoLimiter
    /\ cache = NoCache
    /\ req = NoRequest

\* stress_detector.calculate_anxiety_score(answers)
ScoreAnswers ==
    /\ ~ext.called
    /\ ext' = [ext EXCEPT !.called = TRUE,
                  !.ret = [NoReturn EXCEPT !.number = calculate_anxiety_score(ext.answers)]]
    /\ UNCHANGED <<store, eng, thr, req, db, rate_limiter, cache>>

ScoreNext == ScoreAnswers

SpecScore == ScoreInit /\ [][ScoreNext]_vars

(***************************************************************************)
(* One classification request on a Ready engine: every combination of the  *)
(* arguments below, and every answer the fitted estimator may give         *)
(***************************************************************************)
\* the largest anxiety score of a request (nine answers of 3)
MaxScore == 27

ScoreInputs == {NoScore} \cup {Score(v) : v \in 0..MaxScore}

\* no series, the empty list, nine samples, ten samples
ClassifySeries == {NoSeries, Series(<<>>), Series(ShortSeries), Series(FullSeries)}

\* hrv_features given by the caller
GivenFeatures == Features(7500, 4000, 3500, 200)

\* the 'answers' of a posted request: none, and lists summing to 0, 1, 18, 27
AnswerInputs ==
    {<<>>, <<0, 0, 0>>, <<0, 0, 1, 0>>, <<3, 3, 3, 3, 3, 3>>,
     <<3, 3, 3, 3, 3, 3, 3, 3, 3>>}

\* a user who has completed one assessment, and the rows it left
ReturningUser ==
    [has_completed_assessment |-> TRUE, last_anxiety_score |-> Score(DefaultAnxietyScore),
     total_assessments |-> 1]

PriorSession ==
    [isNone |-> FALSE, stress_level |-> "Low", confidence |-> 5000,
     model_version |-> "random_forest", anxiety_score |-> Score(DefaultAnxietyScore)]

\* the database of a request: the token's user is unknown, has no assessment
\* yet, or has one
Databases ==
    {NoRows,
     [NoRows EXCEPT !.exists = TRUE],
     [exists |-> TRUE, user |-> ReturningUser, sessions |-> <<PriorSession>>,
      hrv_data |-> <<>>, features |-> <<DefaultFeatures(DefaultAnxietyScore)>>, logs |-> 1]}

ClassifyInit ==
    /\ \E kind \in SupportedKinds :
          /\ eng = [e \in Engines |-> IF e = TheEngine THEN TrainedEngine(kind) ELSE NoEngine]
          /\ store = StoreOf(TrainedEngine(kind))
          /\ \E est \in EstimatorOutputs(TrainedEngine(kind).model.cls) :
                \/ /\ \E hrv \in {NoFeatures, GivenFeatures}, score \in ScoreInputs,
                         rr \in ClassifySeries :
                         req = [NoRequest EXCEPT !.via = "engine", !.pc = "predict",
                                                 !.hrv = hrv, !.score = score,
                                                 !.rr = rr, !.est = est]
                   /\ db = NoDb
                \/ /\ \E answers \in AnswerInputs, rr \in ClassifySeries :
                         req = [NoRequest EXCEPT !.via = "endpoint", !.pc = "received",
                                                 !.answers = answers,
                                                 !.rr = rr, !.est = est]
                   /\ \E rows \in Databases :
                         db = [committed |-> rows, session |-> rows, before |-> rows]
    /\ thr = [t \in Threads |-> IdleThread]
    /\ rate_limiter = NoLimiter
    /\ cache = NoCache
    /\ ext = NoCall

\* where a finished predict_stress_level goes: back to the caller, or to the
\* rest of the handler
AfterPredict == IF req.via = "endpoint" THEN "respond" ELSE "done"

\* lines 417-429 of assess_stress
AssessReceive ==
    /\ req.via = "endpoint" /\ req.pc = "received"
    /\ req' = IF ~db.session.exists
                 THEN [req EXCEPT !.pc = "done",
                          !.resp = [NoResponse EXCEPT !.status = 404,
                                                      !.error = "User not found"]]
                 ELSE IF NothingPosted(req.answers, req.rr)
                 THEN [req EXCEPT !.pc = "done",
                          !.resp = [NoResponse EXCEPT !.status = 400,
                             !.error = "Either anxiety answers or HRV data required"]]
                 ELSE [req EXCEPT !.pc = "predict", !.score = PostedScore(req.answers)]
    /\ UNCHANGED <<store, eng, thr, ext, db, rate_limiter, cache>>

\* stress_detector.predict_stress_level(hrv_features, anxiety_score,
\* rr_intervals), lines 173-174
RequestCheck ==
    /\ req.pc = "predict"
    /\ req' = IF NotTrained(eng[TheEngine])
                 THEN [req EXCEPT !.pc = AfterPredict,
                                  !.ret = Raised("Exception: Model not trained")]
                 ELSE [req EXCEPT !.pc = "features"]
    /\ UNCHANGED <<store, eng, thr, ext, db, rate_limiter, cache>>

\* lines 176-204
RequestFeatures ==
    /\ req.pc = "features"
    /\ LET f == PrepareFeatures(req.hrv, req.score, req.rr)
       IN req' = [req EXCEPT !.ret = f,
                             !.pc = IF f.exc # "none" THEN AfterPredict ELSE "scale"]
    /\ UNCHANGED <<store, eng, thr, ext, db, rate_limiter, cache>>

\* line 207
RequestScale ==
    /\ req.pc = "scale"
    /\ LET xs == ScalerTransform(eng[TheEngine].scaler, req.ret)
       IN req' = [req EXCEPT !.ret = xs,
                             !.pc = IF xs.exc # "none" THEN AfterPredict ELSE "classify"]
    /\ UNCHANGED <<store, eng, thr, ext, db, rate_limiter, cache>>

\* lines 210-229
RequestClassify ==
    /\ req.pc = "classify"
    /\ LET r == ModelPredict(eng[TheEngine].model, req.ret)
       IN req' = [req EXCEPT !.pc = AfterPredict,
                             !.ret = IF r.exc # "none" THEN r
                                     ELSE ClassificationResult(r, req.est)]
    /\ UNCHANGED <<store, eng, thr, ext, db, rate_limiter, cache>>

\* lines 502-504: db.session.rollback() and the 500 response
Rollback(d) == [d EXCEPT !.session = d.committed]

InternalError(r, text) ==
    [r EXCEPT !.pc = "done", !.ret = NoReturn,
              !.resp = [NoResponse EXCEPT !.status = 500, !.error = text]]

\* lines 437-446 of assess_stress: the engine's exception is caught at line
\* 502; otherwise the StressSession is added and flushed, which the database
\* may refuse
AssessRespond ==
    /\ req.via = "endpoint" /\ req.pc = "respond"
    /\ IF req.ret.exc # "none"
          THEN /\ req' = InternalError(req, req.ret.exc)
               /\ db' = Rollback(db)
          ELSE \E flushed \in BOOLEAN :
                  IF flushed
                     THEN /\ req' = [req EXCEPT !.pc = "stage"]
                          /\ db' = [db EXCEPT !.session.sessions =
                                       Append(@, assess_commit(eng[TheEngine], db.session.user,
                                                               req.rr, req.ret).session)]
                     ELSE /\ req' = InternalError(req, "OperationalError")
                          /\ db' = Rollback(db)
    /\ UNCHANGED <<store, eng, thr, ext, rate_limiter, cache>>

\* lines 449-483: the HRVData row if a series was sent, the StressFeatures
\* row, the user's columns and the SecurityLog row, all pending in db.session
AssessStage ==
    /\ req.via = "endpoint" /\ req.pc = "stage"
    /\ LET r == assess_commit(eng[TheEngine], db.session.user, req.rr, req.ret)
       IN db' = [db EXCEPT !.session.hrv_data =
                              IF SeriesGiven(req.rr) THEN Append(@, r.hrv_data) ELSE @,
                           !.session.features = Append(@, r.features),
                           !.session.user = r.user,
                           !.session.logs = @ + 1]
    /\ req' = [req EXCEPT !.pc = "commit"]
    /\ UNCHANGED <<store, eng, thr, ext, rate_limiter, cache>>

\* line 485 without the rollback of line 503: what was flushed stays
AssessCommitKeepsFlushed ==
    /\ req.via = "endpoint" /\ req.pc = "commit"
    /\ \E committed \in BOOLEAN :
          IF committed
             THEN /\ db' = [db EXCEPT !.committed = db.session]
                  /\ req' = [req EXCEPT !.pc = "done",
                                 !.resp = assess_commit(eng[TheEngine], db.committed.user,
                                                        req.rr, req.ret)]
             ELSE /\ db' = [db EXCEPT !.committed.sessions = db.session.sessions]
                  /\ req' = InternalError(req, "OperationalError")
    /\ UNCHANGED <<store, eng, thr, ext, rate_limiter, cache>>

\* lines 485-504: db.session.commit() makes the pending rows permanent and
\* the response is built, or the commit fails and line 503 rolls back
AssessCommit ==
    /\ req.via = "endpoint" /\ req.pc = "commit"
    /\ \E committed \in BOOLEAN :
          IF committed
             THEN /\ db' = [db EXCEPT !.committed = db.session]
                  /\ req' = [req EXCEPT !.pc = "done",
                                 !.resp = assess_commit(eng[TheEngine], db.committed.user,
                                                        req.rr, req.ret)]
             ELSE /\ db' = Rollback(db)
                  /\ req' = InternalError(req, "OperationalError")
    /\ UNCHANGED <<store, eng, thr, ext, rate_limiter, cache>>

ClassifyNext ==
    \/ AssessReceive
    \/ RequestCheck
    \/ RequestFeatures
    \/ RequestScale
    \/ RequestClassify
    \/ AssessRespond
    \/ AssessStage
    \/ AssessCommit

SpecClassify == ClassifyInit /\ [][ClassifyNext]_vars

(***************************************************************************)
(* Specification of the constructions                                      *)
(***************************************************************************)
Init ==
    /\ store \in {f \in [Paths -> UNION {PriorFiles(p) : p \in Paths}] :
                     \A p \in Paths : f[p] \in PriorFiles(p)}
    /\ eng = [e \in Engines |-> NoEngine]
    /\ thr = [t \in Threads |-> IdleThread]
    /\ db = NoDb
    /\ rate_limiter = NoLimiter
    /\ cache = NoCache
    /\ ext = NoCall
    /\ req = NoRequest

Next ==
    \E e \in Engines :
        \/ \E kind \in Kinds : Construct(e, kind)
        \/ LoadExistsModel(e)
        \/ LoadExistsScaler(e)
        \/ LoadModel(e)
        \/ LoadScaler(e)
        \/ InitializeModel(e)
        \/ Train(e)
        \/ SaveModelOpen(e)
        \/ SaveModelWrite(e)
        \/ SaveScalerOpen(e)
        \/ SaveScalerWrite(e)

Spec == Init /\ [][Next]_vars

(***************************************************************************)
(* RateLimiter (utils.py).  Calls are made one at a time; each reads the   *)
(* clock, which never runs backwards.                                      *)
(***************************************************************************)
\* the number of calls made on the limiter
MaxCalls == 4

\* max_requests and window_seconds of the callers
Limits == {0, 1, 2}
Windows == {60, 3600, 7200}

\* cleanup, line 142: keys whose newest request is older than this are removed
CleanupAge == 3600

\* the time that passes before a call reads the clock
Advances(window_seconds) == {0, window_seconds \div 2, CleanupAge + 1}

\* lines 110 and 128 with >= in place of >
NotOlderThan(times, window_start) == SelectSeq(times, LAMBDA t : t >= window_start)

\* lines 110 and 128: the request times inside the window
NewerThan(times, window_start) == SelectSeq(times, LAMBDA t : t > window_start)

\* is_allowed, lines 113-117: the value returned
is_allowed(requests, key, max_requests, window_seconds, now) ==
    Len(NewerThan(requests[key].times, now - window_seconds)) < max_requests

\* is_allowed, lines 106-115: self.requests after the call
RequestsAfterAllowed(requests, key, max_requests, window_seconds, now) ==
    LET current == NewerThan(requests[key].times, now - window_seconds)
    IN [requests EXCEPT ![key] =
           [present |-> TRUE,
            times |-> IF Len(current) < max_requests THEN Append(current, now)
                      ELSE current]]

\* get_remaining, lines 121-129
get_remaining(requests, key, max_requests, window_seconds, now) ==
    IF ~requests[key].present THEN max_requests
    ELSE LET left == max_requests
                       - Len(NewerThan(requests[key].times, now - window_seconds))
         IN IF left > 0 THEN left ELSE 0

\* cleanup removing the keys without a request in the last minute
ExpiredKeysAfterMinute(requests, now) ==
    {k \in RateKeys :
        /\ requests[k].present
        /\ \/ requests[k].times = <<>>
           \/ MaxOf(requests[k].times) < now - 60}

\* cleanup, lines 140-143
expired_keys(requests, now) ==
    {k \in RateKeys :
        /\ requests[k].present
        /\ \/ requests[k].times = <<>>
           \/ MaxOf(requests[k].times) < now - CleanupAge}

\* cleanup, lines 145-146: self.requests after the call
RequestsAfterCleanup(requests, now) ==
    [k \in RateKeys |-> IF k \in expired_keys(requests, now) THEN NoTimes
                         ELSE requests[k]]

LimiterInit ==
    /\ \E n \in Limits, w \in Windows :
          rate_limiter = [NoLimiter EXCEPT !.max_requests = n, !.window_seconds = w]
    /\ eng = [e \in Engines |-> NoEngine]
    /\ store = [p \in Paths |-> Absent]
    /\ thr = [t \in Threads |-> IdleThread]
    /\ ext = NoCall
    /\ req = NoRequest
    /\ db = NoDb
    /\ cache = NoCache

\* rate_limiter.is_allowed(key, max_requests, window_seconds)
IsAllowed(key) ==
    /\ rate_limiter.calls < MaxCalls
    /\ \E d \in Advances(rate_limiter.window_seconds) :
          LET rl == rate_limiter
              now == rl.now + d
              n == rl.max_requests
              w == rl.window_seconds
              ok == is_allowed(rl.requests, key, n, w, now)
          IN rate_limiter' =
                [rl EXCEPT !.now = now, !.op = "is_allowed", !.key = key,
                           !.calls = @ + 1,
                           !.allowed = ok,
                           !.requests = RequestsAfterAllowed(rl.requests, key, n, w, now),
                           !.admitted[key] = IF ok THEN Append(@, now) ELSE @,
                           !.uncleaned_allowed = is_allowed(rl.uncleaned, key, n, w, now),
                           !.uncleaned = RequestsAfterAllowed(rl.uncleaned, key, n, w, now)]
    /\ UNCHANGED <<store, eng, thr, ext, req, db, cache>>

\* rate_limiter.get_remaining(key, max_requests, window_seconds)
GetRemaining(key) ==
    /\ rate_limiter.calls < MaxCalls
    /\ \E d \in Advances(rate_limiter.window_seconds) :
          LET rl == rate_limiter
              now == rl.now + d
              n == rl.max_requests
              w == rl.window_seconds
          IN rate_limiter' =
                [rl EXCEPT !.now = now, !.op = "get_remaining", !.key = key,
                           !.calls = @ + 1,
                           !.remaining = get_remaining(rl.requests, key, n, w, now),
                           !.uncleaned_remaining =
                               get_remaining(rl.uncleaned, key, n, w, now)]
    /\ UNCHANGED <<store, eng, thr, ext, req, db, cache>>

\* rate_limiter.cleanup()
Cleanup ==
    /\ rate_limiter.calls < MaxCalls
    /\ \E d \in Advances(rate_limiter.window_seconds) :
          LET rl == rate_limiter
              now == rl.now + d
          IN rate_limiter' =
                [rl EXCEPT !.now = now, !.op = "cleanup", !.calls = @ + 1,
                           !.removed = Cardinality(expired_keys(rl.requests, now)),
                           !.requests = RequestsAfterCleanup(rl.requests, now)]
    /\ UNCHANGED <<store, eng, thr, ext, req, db, cache>>

\* the calls of the rate_limit decorator
AllowedNext == \E key \in RateKeys : IsAllowed(key) \/ GetRemaining(key)

SpecAllowed == LimiterInit /\ [][AllowedNext]_vars

\* the calls of the decorator and of cleanup_caches
LimiterNext ==
    \/ \E key \in RateKeys : IsAllowed(key) \/ GetRemaining(key)
    \/ Cleanup

SpecLimiter == LimiterInit /\ [][LimiterNext]_vars

(***************************************************************************)
(* SimpleCache (utils.py).  Calls are made one at a time; each reads the   *)
(* clock, which never runs backwards.                                      *)
(***************************************************************************)
\* the values cached and the ttl_seconds of the callers (300 is the default)
CacheValues == {"a", "b"}
Ttls == {0, 300}

\* the time that passes before a call reads the clock
CacheAdvances == {0, 300}

\* line 24 with <= in place of <
FreshInclusive(expiry, now) == now <= expiry

\* line 24
Fresh(expiry, now) == now < expiry

\* get, lines 22-28: the value returned
get(entries, key, now) ==
    IF entries[key].present /\ Fresh(entries[key].expiry, now)
       THEN entries[key].value
       ELSE "None"

\* get, lines 26-27: self.cache after the call
CacheAfterGet(entries, key, now) ==
    IF entries[key].present /\ ~Fresh(entries[key].expiry, now)
       THEN [entries EXCEPT ![key] = NoEntry]
       ELSE entries

\* cleanup, line 48
ExpiredEntries(entries, now) ==
    {k \in CacheKeys : entries[k].present /\ now >= entries[k].expiry}

CacheInit ==
    /\ cache = NoCache
    /\ eng = [e \in Engines |-> NoEngine]
    /\ store = [p \in Paths |-> Absent]
    /\ thr = [t \in Threads |-> IdleThread]
    /\ ext = NoCall
    /\ req = NoRequest
    /\ db = NoDb
    /\ rate_limiter = NoLimiter

\* the clock read by a call, and the call counted
Called(op, key, d) ==
    [cache EXCEPT !.now = @ + d, !.op = op, !.key = key, !.calls = @ + 1]

\* cache.set(key, value, ttl_seconds)
Set(key, value, ttl_seconds) ==
    /\ cache.calls < MaxCalls
    /\ \E d \in CacheAdvances :
          LET now == cache.now + d
          IN cache' = [Called("set", key, d) EXCEPT
                          !.cache[key] = [present |-> TRUE, value |-> value,
                                          expiry |-> now + ttl_seconds],
                          !.latest[key] = [live |-> TRUE, value |-> value,
                                           set_time |-> now, ttl |-> ttl_seconds]]
    /\ UNCHANGED <<store, eng, thr, ext, req, db, rate_limiter>>

\* cache.get(key)
Get(key) ==
    /\ cache.calls < MaxCalls
    /\ \E d \in CacheAdvances :
          LET now == cache.now + d
          IN cache' = [Called("get", key, d) EXCEPT
                          !.ret = get(cache.cache, key, now),
                          !.cache = CacheAfterGet(cache.cache, key, now)]
    /\ UNCHANGED <<store, eng, thr, ext, req, db, rate_limiter>>

\* cache.delete(key)
Delete(key) ==
    /\ cache.calls < MaxCalls
    /\ \E d \in CacheAdvances :
          cache' = [Called("delete", key, d) EXCEPT !.cache[key] = NoEntry,
                                                    !.latest[key].live = FALSE]
    /\ UNCHANGED <<store, eng, thr, ext, req, db, rate_limiter>>

\* cache.clear()
Clear ==
    /\ cache.calls < MaxCalls
    /\ \E d \in CacheAdvances :
          cache' = [Called("clear", "", d) EXCEPT
                       !.cache = [k \in CacheKeys |-> NoEntry],
                       !.latest = [k \in CacheKeys |-> [cache.latest[k] EXCEPT !.live = FALSE]]]
    /\ UNCHANGED <<store, eng, thr, ext, req, db, rate_limiter>>

\* cache.cleanup()
CacheCleanup ==
    /\ cache.calls < MaxCalls
    /\ \E d \in CacheAdvances :
          LET now == cache.now + d
              expired == ExpiredEntries(cache.cache, now)
          IN cache' = [Called("cleanup", "", d) EXCEPT
                          !.removed = Cardinality(expired),
                          !.cache = [k \in CacheKeys |->
                                        IF k \in expired THEN NoEntry ELSE cache.cache[k]]]
    /\ UNCHANGED <<store, eng, thr, ext, req, db, rate_limiter>>

CacheNext ==
    \/ \E key \in CacheKeys :
          \/ \E value \in CacheValues, ttl_seconds \in Ttls : Set(key, value, ttl_seconds)
          \/ Get(key)
          \/ Delete(key)
    \/ Clear
    \/ CacheCleanup

SpecCache == CacheInit /\ [][CacheNext]_vars

(***************************************************************************)
(* Properties of the construction (checked under Spec)                     *)
(***************************************************************************)
\* the engine took the load path: Ready without a training run
Loaded(en) == en.pc = "ready" /\ en.is_trained /\ en.trainings = 0

\* the engine has opened an artifact file for writing, or tried to
Wrote(en) ==
    en.save # "none" \/ en.pc \in {"write_model", "save_scaler", "write_scaler"}

\* the engine trained and both of its writes went through
TrainedAndSaved(en) == en.pc = "ready" /\ en.trainings = 1 /\ en.save = "ok"

\* C1: when both artifacts of the engine's kind exist and load without error,
\* the engine is Ready with exactly the pair it loaded, no training is run
\* and no file of the store is written.
C1_LoadedPairSkipsTraining ==
    [][\A e \in Engines :
          LET mp == ModelPath(eng[e].model_type)
              sp == ScalerPath(eng[e].model_type)
          IN /\ (eng[e].pc = "load_model" /\ eng'[e].pc = "load_scaler")
                   => eng'[e].model = store[mp].obj /\ store[mp].state = "pkl"
             /\ (eng[e].pc = "load_scaler" /\ eng'[e].pc # "load_scaler"
                     /\ store[sp].state = "pkl")
                   => /\ eng'[e].pc = "ready"
                      /\ eng'[e].is_trained
                      /\ eng'[e].exc = "none"
                      /\ eng'[e].model = eng[e].model
                      /\ eng'[e].scaler = store[sp].obj
                      /\ eng'[e].trainings = 0
                      /\ ~Wrote(eng'[e])
                      /\ store' = store
             /\ Loaded(eng[e]) => eng'[e] = eng[e]]_vars

C1_Witness ==
    \E e \in Engines :
        /\ Loaded(eng[e])
        /\ eng[e].model.fitted /\ eng[e].scaler.fitted
        /\ ~Wrote(eng[e])

\* C2: for a supported kind, an absent artifact or a failing load is never
\* raised to the caller; the constructor falls back to exactly one training
\* run; when its two writes succeed and nobody else writes, the store holds
\* both artifacts and an engine of the same kind constructed afterwards loads
\* them and does not train.
C2_LoadFailureFallsBackToTraining ==
    \A e \in Engines :
        LET en == eng[e]
        IN en.model_type \in SupportedKinds =>
             /\ en.exc \in {"none", "FitError"}
             /\ en.trainings <= 1
             /\ (Finished(en) /\ en.trainings = 0) => Loaded(en)
             /\ (TrainedAndSaved(en) /\ \A d \in Engines \ {e} : ~Wrote(eng[d]))
                  => /\ store[ModelPath(en.model_type)] = [state |-> "pkl", obj |-> en.model]
                     /\ store[ScalerPath(en.model_type)] = [state |-> "pkl", obj |-> en.scaler]
                     /\ \A d \in Engines :
                           (/\ e \in eng[d].after
                            /\ eng[d].model_type = en.model_type
                            /\ Finished(eng[d]))
                           => /\ Loaded(eng[d])
                              /\ eng[d].model = en.model
                              /\ eng[d].scaler = en.scaler

C2_Witness ==
    \E e, d \in Engines :
        /\ TrainedAndSaved(eng[e])
        /\ e \in eng[d].after
        /\ eng[d].model_type = eng[e].model_type
        /\ Loaded(eng[d])
        /\ eng[d].model.run = e
        /\ eng[d].scaler.run = e

\* C3: a failed save (of the model write, of the scaler write, at opening or
\* while writing) does not fail the constructor: the engine is Ready, holds
\* the model and scaler it has just fitted, and predict_stress_level returns
\* a classification.
C3_SaveFailureIsNotFatal ==
    \A e \in Engines :
        eng[e].save = "failed" =>
            /\ eng[e].pc = "ready"
            /\ eng[e].exc = "none"
            /\ eng[e].is_trained
            /\ eng[e].trainings = 1
            /\ eng[e].model.fitted /\ eng[e].model.run = e
            /\ eng[e].scaler.fitted /\ eng[e].scaler.run = e
            /\ LET r == predict_stress_level(eng[e], NoFeatures, Score(0), NoSeries)
               IN r.exc = "none" /\ r.output.clf = eng[e].model.cls

C3_Witness ==
    \E e \in Engines :
        /\ eng[e].save = "failed"
        /\ store[ModelPath(eng[e].model_type)] = [state |-> "pkl", obj |-> eng[e].model]
        /\ store[ScalerPath(eng[e].model_type)].state # "pkl"

\* C4: a failing fit is fatal for the construction: the exception leaves the
\* constructor, is_trained stays false, the training is not run again and the
\* engine writes nothing to the store.
C4_TrainingFailureIsFatal ==
    \A e \in Engines :
        /\ (eng[e].exc # "none") <=> (eng[e].pc = "raised")
        /\ eng[e].exc = "FitError" =>
              /\ ~eng[e].is_trained
              /\ eng[e].trainings = 1
              /\ ~Wrote(eng[e])
              /\ \A p \in Paths : store[p].obj.run # e

C4_Witness ==
    \E e \in Engines :
        /\ eng[e].exc = "FitError"
        /\ eng[e].pc = "raised"
        /\ eng[e].scaler.fitted

\* C7: constructing an engine of a kind other than 'random_forest' or 'svm'
\* always fails with the invalid-kind error, whatever the store holds, and
\* such an engine is never Ready.
C7_UnsupportedKindAlwaysRejected ==
    \A e \in Engines :
        (eng[e].model_type \notin SupportedKinds /\ eng[e].pc # "none") =>
            /\ ~eng[e].is_trained
            /\ eng[e].pc # "ready"
            /\ Finished(eng[e]) => eng[e].exc = "ValueError"

\* C8: an engine of one kind never reads and never overwrites an artifact that
\* an engine of the other kind stored.
C8_ArtifactsKeyedByKind ==
    \A e \in Engines : eng[e].foreign = {}

C5_InferenceLeavesEngineUnchanged ==
    [][/\ \A e \in Engines :
             eng[e].is_trained =>
                /\ eng'[e].model = eng[e].model
                /\ eng'[e].scaler = eng[e].scaler
                /\ eng'[e].model_type = eng[e].model_type
                /\ eng'[e].is_trained = eng[e].is_trained
       /\ \A t \in Threads :
             (thr'[t].pc = "done" /\ thr'[t].op = "predict" /\ eng[TheEngine].is_trained)
                => thr'[t].ret = predict_stress_level(eng[TheEngine], thr'[t].hrv,
                                                      thr'[t].score, thr'[t].rr)]_vars

C5_Witness ==
    \E t, u \in Threads :
        /\ t # u
        /\ eng[TheEngine].is_trained
        /\ thr[t].pc = "done" /\ thr[t].op = "predict"
        /\ thr[t].ret.exc = "none" /\ thr[t].used = {"scaler", "model"}
        /\ thr[u].op = "predict" /\ thr[u].pc = "classify"

\* C6: while is_trained is false, predict_stress_level fails with the
\* not-trained error for every argument combination, before it reads the
\* scaler or the model, and returns no classification.
C6_PredictNeedsReady ==
    ~eng[TheEngine].is_trained =>
        /\ \A a \in PredictArgs :
              predict_stress_level(eng[TheEngine], a[1], a[2], a[3])
                 = [NoReturn EXCEPT !.exc = "Exception: Model not trained"]
        /\ \A t \in Threads :
              thr[t].op = "predict" =>
                 /\ thr[t].pc \in {"check", "done"}
                 /\ thr[t].used = {}
                 /\ thr[t].ret.output = NoOutput
                 /\ thr[t].pc = "done"
                       => thr[t].ret.exc = "Exception: Model not trained"

C6_Witness ==
    \E t \in Threads :
        /\ ~eng[TheEngine].is_trained
        /\ thr[t].op = "predict" /\ thr[t].pc = "done"
        /\ ~thr[t].score.isNone
        /\ thr[t].ret.exc = "Exception: Model not trained"

(***************************************************************************)
(* Properties of extract_hrv_features (checked under SpecExtract)          *)
(***************************************************************************)
\* C10: extract_hrv_features fails with the insufficient-data error for a
\* missing series and for every series of 0 to 9 samples, and returns a
\* feature vector for every series of 10 or more positive samples.
C10_ExtractBoundaryIsTen ==
    ext.called =>
        IF ext.rr.isNone \/ Len(ext.rr.list) <= 9
           THEN ext.ret = [NoReturn EXCEPT !.exc = "ValueError: Insufficient RR interval data"]
           ELSE /\ ext.ret.exc = "none"
                /\ ~ext.ret.hrv_features.isNone
                /\ ext.ret.hrv_features.mean_hr > 0

C10_Witness ==
    /\ ext.called
    /\ ~ext.rr.isNone
    /\ Len(ext.rr.list) = 10
    /\ ext.ret.exc = "none"

(***************************************************************************)
(* Properties of recommend_therapy (checked under SpecInfer)               *)
(***************************************************************************)
\* C20: recommend_therapy never raises; it returns the payload with primary
\* "music" for "Low", "yoga" for "Moderate" and "chatbot" for "High", and
\* for every other argument the payload of "Moderate".
C20_RecommendationLookupIsTotal ==
    \A t \in Threads :
        (thr[t].pc = "done" /\ thr[t].op = "recommend") =>
            LET payload == thr[t].ret.therapy
                level == thr[t].level
            IN /\ thr[t].ret.exc = "none"
               /\ level = "Low" => payload.primary = "music"
               /\ level = "Moderate" => payload.primary = "yoga"
               /\ level = "High" => payload.primary = "chatbot"
               /\ level \notin {"Low", "Moderate", "High"}
                     => /\ payload = recommendations("Moderate")
                        /\ payload.primary = "yoga"
                        /\ Len(payload.therapies) = 3

C20_Witness ==
    \E t \in Threads :
        /\ thr[t].pc = "done" /\ thr[t].op = "recommend"
        /\ thr[t].level = "Severe"
        /\ thr[t].ret.therapy.primary = "yoga"

(***************************************************************************)
(* Properties of one classification request (checked under SpecClassify)   *)
(***************************************************************************)
\* the message of line 191
MissingInput ==
    "ValueError: Either hrv_features, rr_intervals, or anxiety_score must be provided"

\* the request carries no sample: rr_intervals is None or the empty list
NoSamples(rr) == rr.isNone \/ rr.list = <<>>

\* C11: a request that carries no answers, no samples and no anxiety score
\* (and no precomputed features) fails with the missing-input error and
\* yields no result: predict_stress_level raises it, the endpoint answers
\* 400 to a user it knows without calling the engine.  A request that
\* carries at least one of them, an anxiety score of 0 included, does not
\* fail with the missing-input error.
C11_MissingInputOnlyWhenNothingSupplied ==
    req.pc = "done" =>
        /\ req.via = "engine" =>
              IF req.hrv.isNone /\ req.score.isNone /\ NoSamples(req.rr)
                 THEN req.ret = [NoReturn EXCEPT !.exc = MissingInput]
                 ELSE req.ret.exc # MissingInput
        /\ req.via = "endpoint" =>
              IF db.before.exists /\ req.answers = <<>> /\ NoSamples(req.rr)
                 THEN req.resp = [NoResponse EXCEPT !.status = 400,
                                     !.error = "Either anxiety answers or HRV data required"]
                 ELSE /\ req.resp.status # 400
                      /\ req.resp.error # MissingInput
                      /\ req.ret.exc # MissingInput

C11_Witness ==
    /\ req.pc = "done" /\ req.via = "engine"
    /\ req.hrv.isNone /\ req.rr.isNone
    /\ req.score = Score(0)
    /\ req.ret.exc = "none"
    /\ req.ret.stress_level # ""

\* C12: whenever predict_stress_level is given an interval series of 0 to 9
\* samples (and no precomputed features), with or without an anxiety score,
\* the call fails with the insufficient-data error; it never returns a
\* result built from the default vector of the score.
C12_ShortSeriesAlwaysRejected ==
    (req.pc = "done" /\ req.via = "engine" /\ req.hrv.isNone
        /\ ~req.rr.isNone /\ Len(req.rr.list) < MinSamples)
       => req.ret = [NoReturn EXCEPT !.exc = "ValueError: Insufficient RR interval data"]

\* a classification came back
Classified == req.pc = "done" /\ req.ret.exc = "none" /\ req.ret.stress_level # ""

\* the entry of the result's probabilities for a level
ProbabilityOf(ret, level) ==
    IF level = "Low" THEN ret.probabilities.low
    ELSE IF level = "Moderate" THEN ret.probabilities.moderate
    ELSE ret.probabilities.high

\* C13: in every result, for both model kinds, stress_level is a class with
\* the largest entry of probabilities.
C13_LevelIsArgmaxOfProbabilities ==
    Classified =>
        \A level \in {"Low", "Moderate", "High"} :
            ProbabilityOf(req.ret, level) <= ProbabilityOf(req.ret, req.ret.stress_level)

\* C14: confidence is the entry of probabilities for the reported
\* stress_level, rounded as that entry is, and lies between 0 and 100.
C14_ConfidenceIsProbabilityOfLevel ==
    Classified =>
        /\ req.ret.confidence = ProbabilityOf(req.ret, req.ret.stress_level)
        /\ req.ret.confidence = RoundPercent(req.est.proba[req.est.prediction + 1])
        /\ req.ret.confidence \in 0..10000

C14_Witness ==
    /\ Classified
    /\ req.ret.stress_level = "Moderate"
    /\ req.ret.confidence > 0
    /\ req.ret.confidence # RoundDiv(req.ret.confidence, 100) * 100
    /\ req.ret.probabilities.high > req.ret.confidence

\* C15: the three probabilities are percentages with two decimals, each
\* between 0 and 100, and their sum is within 0.1 of 100.
C15_ProbabilitiesSumToHundred ==
    Classified =>
        LET p == req.ret.probabilities
            total == p.low + p.moderate + p.high
        IN /\ p.low \in 0..10000 /\ p.moderate \in 0..10000 /\ p.high \in 0..10000
           /\ total - 10000 <= 10
           /\ 10000 - total <= 10

C15_Witness ==
    /\ Classified
    /\ req.ret.probabilities.low > 0
    /\ req.ret.probabilities.low + req.ret.probabilities.moderate
          + req.ret.probabilities.high # 10000

\* the score the caller provided: the anxiety_score argument, or the sum of
\* the posted answers; none when the request carried none
ProvidedScore ==
    IF req.via = "engine" THEN req.score
    ELSE IF req.answers = <<>> THEN NoScore
    ELSE Score(SumSeq(req.answers))

\* C16: the anxiety_score of a result is the score the caller provided and
\* is null when the request carried none; the endpoint stores no other
\* score on the session or the user.
C16_ReportedScoreIsProvidedScore ==
    Classified =>
        /\ req.ret.anxiety_score = ProvidedScore
        /\ req.via = "endpoint" =>
              /\ req.resp.session.anxiety_score = ProvidedScore
              /\ req.resp.user.last_anxiety_score = ProvidedScore

\* C17: when only an anxiety score is supplied, the hrv_features of the
\* result and the first four components given to the classifier are
\* (68, 85, 80, 1.2) for a score below 18, (78, 55, 50, 2.8) for 18 to 24 and
\* (92, 30, 25, 5.2) for 25 and above; so 17 is in the first bucket, 18 and
\* 24 in the second, 25 in the third.
C17_DefaultVectorByBucket ==
    (Classified /\ req.via = "engine" /\ req.hrv.isNone /\ req.rr.isNone
        /\ ~req.score.isNone)
       => LET s == req.score.val
              v == IF s <= 17 THEN <<6800, 8500, 8000, 120>>
                   ELSE IF s <= 24 THEN <<7800, 5500, 5000, 280>>
                   ELSE <<9200, 3000, 2500, 520>>
          IN /\ req.ret.hrv_features = Features(v[1], v[2], v[3], v[4])
             /\ req.ret.output.x = v \o <<100 * s>>

C17_Witness ==
    /\ Classified /\ req.via = "engine" /\ req.hrv.isNone /\ req.rr.isNone
    /\ req.score = Score(24)
    /\ req.ret.hrv_features = Features(7800, 5500, 5000, 280)

\* C18: the default vector of the score is used only when a score comes
\* without samples: when the request carries a series (then of 10 or more
\* samples) the hrv_features of the result are the ones extracted from it,
\* whatever score accompanies it; the classifier is always given 5
\* components.
C18_DefaultVectorOnlyWithoutSeries ==
    Classified =>
        /\ Len(req.ret.output.x) = 5
        /\ req.hrv.isNone =>
              IF NoSamples(req.rr)
                 THEN /\ ~ProvidedScore.isNone
                      /\ req.ret.hrv_features = DefaultFeatures(ProvidedScore.val)
                 ELSE /\ Len(req.rr.list) >= 10
                      /\ req.ret.hrv_features = extract_hrv_features(req.rr).hrv_features
                      /\ ~req.ret.hrv_features.isNone
                      /\ \A s \in 0..MaxScore : req.ret.hrv_features # DefaultFeatures(s)

C18_Witness ==
    /\ Classified /\ req.via = "engine" /\ req.hrv.isNone
    /\ req.rr = Series(FullSeries)
    /\ req.score = Score(25)
    /\ req.ret.hrv_features.mean_hr # 9200

(***************************************************************************)
(* Further properties of extract_hrv_features (checked under SpecExtract)  *)
(***************************************************************************)
\* the extraction returned features
Extracted == ext.called /\ ext.ret.exc = "none" /\ ~ext.ret.hrv_features.isNone

\* |mean_hr - 60000 / mean(series)| in units of 1 / (100 * sum(series))
MeanHrError ==
    LET d == ext.ret.hrv_features.mean_hr * SumSeq(ext.rr.list)
                - 60000 * 100 * Len(ext.rr.list)
    IN IF d < 0 THEN -d ELSE d

\* C21 as stated: for every series of 10 or more samples the returned
\* mean_hr is within a relative tolerance of 1e-6 of 60000 / mean(series).
C21_MeanHrWithinRelativeTolerance ==
    Extracted => MeanHrError <= 6 * Len(ext.rr.list)

\* C21 (amended): for every series of 10 or more samples the returned
\* mean_hr is 60000 / mean(series) rounded to two decimals, so it is within
\* 0.005 of it.
C21_MeanHrIsRoundedToTwoDecimals ==
    Extracted => 2 * MeanHrError <= SumSeq(ext.rr.list)

C21_Witness ==
    /\ Extracted
    /\ Len(ext.rr.list) = 10
    /\ MeanHrError > 6 * Len(ext.rr.list)

\* the series with the samples at positions i and i + 1 exchanged
Swap(q, i) ==
    [j \in 1..Len(q) |-> IF j = i THEN q[i + 1] ELSE IF j = i + 1 THEN q[i] ELSE q[j]]

\* C22: a call of extract_hrv_features leaves the engine, the store and the
\* caller's series as they were, whatever the engine's kind and state; its
\* outcome is the one of the series alone, and exchanging two neighbouring
\* samples (hence any reordering) changes neither mean_hr nor sdnn: the
\* order of the samples shows only in rmssd and lf_hf_ratio.
C22_ExtractIsPure ==
    [][(~ext.called /\ ext'.called) =>
          /\ eng' = eng
          /\ store' = store
          /\ ext'.rr = ext.rr
          /\ (ext'.ret.exc = "none") = (~ext.rr.isNone /\ Len(ext.rr.list) >= 10)
          /\ ext'.ret.exc = "none" =>
                \A i \in 1..(Len(ext.rr.list) - 1) :
                    LET other == HrvOf(Swap(ext.rr.list, i))
                    IN /\ other.mean_hr = ext'.ret.hrv_features.mean_hr
                       /\ other.sdnn = ext'.ret.hrv_features.sdnn]_vars

C22_Witness ==
    /\ Extracted
    /\ eng[TheEngine].model_type = "svm"
    /\ \E i \in 1..(Len(ext.rr.list) - 1) :
          HrvOf(Swap(ext.rr.list, i)).rmssd # ext.ret.hrv_features.rmssd

(***************************************************************************)
(* Properties of calculate_anxiety_score (checked under SpecScore)         *)
(***************************************************************************)
\* how many answers of the list have the value v
CountOf(q, v) == Cardinality({i \in 1..Len(q) : q[i] = v})

\* C23: calculate_anxiety_score returns the sum of the answers, 0 for the
\* empty list; when every answer is in {0, 1, 2, 3} the score lies between 0
\* and 3 times the number of answers.
C23_ScoreIsSumOfAnswers ==
    ext.called =>
        LET q == ext.answers
            score == ext.ret.number
        IN /\ ext.ret.exc = "none"
           /\ score = CountOf(q, 1) + 2 * CountOf(q, 2) + 3 * CountOf(q, 3)
                         + 4 * CountOf(q, 4) - CountOf(q, -1)
           /\ q = <<>> => score = 0
           /\ (\A i \in 1..Len(q) : q[i] \in 0..3) => score \in 0..(3 * Len(q))

C23_Witness ==
    /\ ext.called
    /\ ext.answers = <<0, 0, 1, 0>>
    /\ ext.ret.number = 1

(***************************************************************************)
(* Further properties of the construction (checked under Spec)             *)
(***************************************************************************)
\* model is set and fitted, scaler is fitted
BothFitted(en) ==
    en.model.cls # "NoneType" /\ en.model.fitted /\ en.scaler.fitted

\* C24: in every state of an engine is_trained implies that the model is
\* set and fitted and the scaler fitted; is_trained becomes true only in
\* the step that ends the load of both artifacts or the fit of both, and
\* once true it stays true.
C24_TrainedMeansBothFitted ==
    [][\A e \in Engines :
          /\ eng'[e].is_trained => BothFitted(eng'[e])
          /\ eng[e].is_trained => eng'[e].is_trained
          /\ (~eng[e].is_trained /\ eng'[e].is_trained) =>
                \/ /\ eng[e].pc = "load_scaler"
                   /\ eng'[e].model = eng[e].model
                   /\ eng'[e].scaler = store[ScalerPath(eng[e].model_type)].obj
                   /\ eng'[e].trainings = 0
                \/ /\ eng[e].pc = "train"
                   /\ eng'[e].model.run = e /\ eng'[e].scaler.run = e
                   /\ eng'[e].exc = "none"]_vars

C24_Witness ==
    \E e \in Engines :
        /\ eng[e].pc = "save_model"
        /\ eng[e].is_trained
        /\ BothFitted(eng[e])
        /\ eng[e].model.run = e

\* how far a constructor call has come
PcRank(pc) ==
    CASE pc = "none" -> 0
      [] pc = "load_exists_model" -> 1
      [] pc = "load_exists_scaler" -> 2
      [] pc = "load_model" -> 3
      [] pc = "load_scaler" -> 4
      [] pc = "initialize" -> 5
      [] pc = "train" -> 6
      [] pc = "save_model" -> 7
      [] pc = "write_model" -> 8
      [] pc = "save_scaler" -> 9
      [] pc = "write_scaler" -> 10
      [] OTHER -> 11

\* the next line of the constructor call of engine e
StepOf(e) ==
    \/ LoadExistsModel(e) \/ LoadExistsScaler(e) \/ LoadModel(e) \/ LoadScaler(e)
    \/ InitializeModel(e) \/ Train(e)
    \/ SaveModelOpen(e) \/ SaveModelWrite(e) \/ SaveScalerOpen(e) \/ SaveScalerWrite(e)

\* C25: when engines of supported kinds are constructed concurrently against
\* one store, every constructor call can always take its next step and each
\* step brings it nearer to its end, so it terminates, whatever the others
\* do to the files; no existence check, load or write makes it raise, and
\* unless its own fit raised it ends with the engine Ready (is_trained, model
\* and scaler fitted).
C25_ConcurrentConstructionsEndReady ==
    /\ [](\A e \in Engines :
             (eng[e].pc # "none" /\ ~Finished(eng[e])) => ENABLED StepOf(e))
    /\ [][\A e \in Engines :
          eng'[e].model_type \in SupportedKinds =>
             /\ eng'[e] # eng[e] => PcRank(eng'[e].pc) > PcRank(eng[e].pc)
             /\ (eng'[e].pc = "raised" /\ eng[e].pc # "raised")
                   => eng[e].pc = "train" /\ eng'[e].exc = "FitError"
             /\ (Finished(eng'[e]) /\ eng'[e].exc = "none")
                   => /\ eng'[e].pc = "ready"
                      /\ eng'[e].is_trained
                      /\ BothFitted(eng'[e])]_vars

C25_Witness ==
    /\ \A e \in Engines :
          /\ eng[e].pc = "ready"
          /\ eng[e].model_type = "svm"
          /\ eng[e].after = {}
          /\ eng[e].trainings = 1
    /\ store[ScalerPath("svm")] = Corrupt

\* C26: a Ready engine of a supported kind holds a model and a scaler fitted
\* by one and the same training run, its own or the earlier one whose two
\* files it loaded.
C26_PairFromSingleRun ==
    \A e \in Engines :
        (eng[e].pc = "ready" /\ eng[e].model_type \in SupportedKinds)
            => eng[e].model.run = eng[e].scaler.run

CountIn(times, lo, hi) ==
    Cardinality({i \in DOMAIN times : times[i] > lo /\ times[i] <= hi})

\* the list q without its first n elements
DropFirst(q, n) == SubSeq(q, n + 1, Len(q))

\* C28: with fixed max_requests N and window W, for every key at most N
\* admissions lie in any window of length W; an is_allowed call is admitted
\* exactly when fewer than N of the key's admissions are newer than now - W;
\* a denied call records no timestamp (it only drops old ones), an admitted
\* call records its own; and the call leaves every other key as it was.
C28_SlidingWindow ==
    /\ [](\A k \in RateKeys :
             \A i \in DOMAIN rate_limiter.admitted[k] :
                 CountIn(rate_limiter.admitted[k],
                         rate_limiter.admitted[k][i] - rate_limiter.window_seconds,
                         rate_limiter.admitted[k][i]) <= rate_limiter.max_requests)
    /\ [][(rate_limiter'.op = "is_allowed" /\ rate_limiter'.calls # rate_limiter.calls) =>
             LET k == rate_limiter'.key
                 now == rate_limiter'.now
                 before == rate_limiter.requests[k].times
                 after == rate_limiter'.requests[k].times
             IN /\ rate_limiter'.allowed <=>
                      CountIn(rate_limiter.admitted[k], now - rate_limiter.window_seconds, now)
                         < rate_limiter.max_requests
                /\ ~rate_limiter'.allowed =>
                      /\ \E n \in 0..Len(before) : after = DropFirst(before, n)
                      /\ rate_limiter'.admitted[k] = rate_limiter.admitted[k]
                /\ rate_limiter'.allowed =>
                      /\ \E n \in 0..Len(before) : after = Append(DropFirst(before, n), now)
                      /\ rate_limiter'.admitted[k] = Append(rate_limiter.admitted[k], now)
                /\ \A other \in RateKeys \ {k} :
                      /\ rate_limiter'.requests[other] = rate_limiter.requests[other]
                      /\ rate_limiter'.admitted[other] = rate_limiter.admitted[other]]_vars

\* a key with three admissions is denied: the first admission has left the
\* window, the other two fill it
C28_Witness ==
    /\ rate_limiter.op = "is_allowed" /\ ~rate_limiter.allowed
    /\ rate_limiter.max_requests = 2
    /\ \E k \in RateKeys :
          /\ rate_limiter.key = k
          /\ Len(rate_limiter.admitted[k]) = 3
          /\ rate_limiter.admitted[k][1] <= rate_limiter.now - rate_limiter.window_seconds
          /\ Len(rate_limiter.requests[k].times) = 2

\* the keys that are in self.requests
PresentKeys(requests) == {k \in RateKeys : requests[k].present}

\* the last is_allowed or get_remaining call returned what the limiter that
\* is never cleaned returned
SameAsUncleaned ==
    /\ rate_limiter.op = "is_allowed" =>
          rate_limiter.allowed = rate_limiter.uncleaned_allowed
    /\ rate_limiter.op = "get_remaining" =>
          rate_limiter.remaining = rate_limiter.uncleaned_remaining

\* a cleanup call returns the number of keys it removed, and changes no key
\* that it keeps
CleanupReturnsRemoved ==
    (rate_limiter'.op = "cleanup" /\ rate_limiter'.calls # rate_limiter.calls) =>
        /\ PresentKeys(rate_limiter'.requests) \subseteq PresentKeys(rate_limiter.requests)
        /\ rate_limiter'.removed =
              Cardinality(PresentKeys(rate_limiter.requests)
                             \ PresentKeys(rate_limiter'.requests))
        /\ \A k \in PresentKeys(rate_limiter'.requests) :
              rate_limiter'.requests[k] = rate_limiter.requests[k]

\* C29 as stated: for every key, window and limit, an is_allowed or
\* get_remaining call returns what it would have returned had cleanup never
\* been called, and cleanup returns the number of keys it removed.
C29_CleanupNeverChangesResults ==
    []SameAsUncleaned /\ [][CleanupReturnsRemoved]_vars

\* C29: for every key and limit and every window of at most 3600 seconds, an
\* is_allowed or get_remaining call returns what it would have returned had
\* cleanup never been called, and cleanup returns the number of keys it
\* removed.
C29_CleanupIsTransparentUpToAnHour ==
    /\ [](rate_limiter.window_seconds <= CleanupAge => SameAsUncleaned)
    /\ [][CleanupReturnsRemoved]_vars

\* get_remaining is asked about a key that cleanup has removed and that the
\* uncleaned limiter still holds
C29_Witness ==
    /\ rate_limiter.window_seconds <= CleanupAge
    /\ rate_limiter.op = "get_remaining"
    /\ rate_limiter.removed = 1
    /\ rate_limiter.max_requests = 2
    /\ \E k \in RateKeys :
          /\ rate_limiter.key = k
          /\ ~rate_limiter.requests[k].present
          /\ Len(rate_limiter.uncleaned[k].times) = 2
          /\ rate_limiter.remaining = 2
          /\ rate_limiter.uncleaned_remaining = 2

(***************************************************************************)
(* Properties of the cache                                                 *)
(***************************************************************************)
\* the latest set of the key was followed by no delete or clear and the time
\* is strictly before its set time plus its ttl
Servable(latest, now) == latest.live /\ now < latest.set_time + latest.ttl

\* C30: get(key) returns the value of the key's latest set if no delete or
\* clear followed that set and the time is strictly before its set time plus
\* ttl, and None otherwise; a get on an expired entry removes it and any
\* other get changes nothing; cleanup removes exactly the entries with
\* now >= expiry, leaves the others unchanged and returns the number removed.
C30_CacheNeverServesExpired ==
    /\ [](cache.op = "get" =>
             cache.ret = IF Servable(cache.latest[cache.key], cache.now)
                            THEN cache.latest[cache.key].value
                            ELSE "None")
    /\ [][/\ (cache'.op = "get" /\ cache'.calls # cache.calls) =>
                LET k == cache'.key
                    was == cache.cache[k]
                IN /\ (was.present /\ cache'.now >= was.expiry) => ~cache'.cache[k].present
                   /\ ~(was.present /\ cache'.now >= was.expiry) => cache'.cache[k] = was
                   /\ \A other \in CacheKeys \ {k} : cache'.cache[other] = cache.cache[other]
          /\ (cache'.op = "cleanup" /\ cache'.calls # cache.calls) =>
                /\ \A k \in CacheKeys :
                      cache'.cache[k].present <=>
                         (cache.cache[k].present /\ cache'.now < cache.cache[k].expiry)
                /\ \A k \in CacheKeys :
                      cache'.cache[k].present => cache'.cache[k] = cache.cache[k]
                /\ cache'.removed =
                      Cardinality({k \in CacheKeys : cache.cache[k].present})
                        - Cardinality({k \in CacheKeys : cache'.cache[k].present})]_vars

\* a get at exactly set time plus ttl returns None and removes the entry,
\* while the other key's entry, set later, stays
C30_Witness ==
    /\ cache.op = "get" /\ cache.ret = "None"
    /\ \E k \in CacheKeys, other \in CacheKeys :
          /\ cache.key = k /\ other # k
          /\ cache.latest[k].live /\ cache.latest[k].ttl = 300
          /\ cache.now = cache.latest[k].set_time + cache.latest[k].ttl
          /\ ~cache.cache[k].present
          /\ cache.cache[other].present /\ cache.now < cache.cache[other].expiry

====
